---- MODULE Spec2Model ----
(***************************************************************************)
(* A model of the assert_all_eq! macro (src/src/lib.rs).                   *)
(*                                                                         *)
(* An invocation is a list of expressions e0 .. e(n-1), a token shape      *)
(* (trailing ',' and/or ';', and whether message tokens follow the ';'),   *)
(* and the items the call site has in scope.  The macro rules are tried    *)
(* in source order; the selected rule either delegates to assert_eq!,      *)
(* re-invokes the macro on a normalised token list, or expands to the      *)
(* unrolled comparison code.  The expanded code is then run statement by   *)
(* statement; every evaluation, equality check, message formatting and     *)
(* panic is appended to `trace`.                                           *)
(***************************************************************************)
EXTENDS Integers, Sequences, FiniteSets, TLC

\* Largest number of expressions in an invocation.
MaxN == 6

\* Largest failing position the reporter is run on.
MaxIndex == 110

\* The text format!($($arg)+) produces for the invocation's custom message
\* (a template without arguments: the template's own text).
CustomMessage == <<"m", "s", "g">>

\* The values an expression can produce.  The expressions of one invocation
\* are all of one type (each is compared with the anchor by PartialEq).
Types == {"i32", "&str"}
Value(t, v) == [ty |-> t, v |-> v]
ValuesOf(t) ==
    IF t = "i32"
    THEN {Value("i32", 1), Value("i32", 2)}
    ELSE {Value("&str", <<"a">>), Value("&str", CustomMessage)}
Values == ValuesOf("i32") \cup ValuesOf("&str")

\* The template of the custom message, read as an expression: a string
\* literal.
TemplateValue == Value("&str", CustomMessage)

----------------------------------------------------------------------------
(* Text rendering *)

Digit(d) ==
    CASE d = 0 -> "0" [] d = 1 -> "1" [] d = 2 -> "2" [] d = 3 -> "3"
      [] d = 4 -> "4" [] d = 5 -> "5" [] d = 6 -> "6" [] d = 7 -> "7"
      [] d = 8 -> "8" [] d = 9 -> "9"

RECURSIVE Decimal(_)
\* format!("{}", i): the decimal digits of i, most significant first.
Decimal(i) ==
    IF i < 10 THEN <<Digit(i)>> ELSE Decimal(i \div 10) \o <<Digit(i % 10)>>

\* {:?} of a value: the digits of an integer, a string between double
\* quotes (the strings here hold nothing that Debug escapes).
DebugRepr(v) ==
    IF v.ty = "i32" THEN Decimal(v.v) ELSE <<"\"">> \o v.v \o <<"\"">>

\* The backquote character of the message texts.
BQ == "<backquote>"

\* Repeat as a single space, whatever the width of the index.
Repeat_One(len) == <<" ">>

\* " ".repeat(len)
Repeat(len) == [j \in 1..len |-> " "]

\* NotEqText without the ',' that ends the anchor's line.
NotEqText_NoComma(left, right, i, msg) ==
    LET index == Decimal(i)
        pad   == Repeat(Len(index))
    IN  << <<"equality assertion failed at position 0 and ">> \o index,
           pad \o <<"0", ":", " ", BQ>> \o DebugRepr(left) \o <<BQ>>,
           <<" ">> \o index \o <<":", " ", BQ>> \o DebugRepr(right) \o <<BQ>>
              \o (IF msg = <<>> THEN <<>> ELSE <<":", " ">> \o msg[1]) >>

\* The panic message of not_eq: three lines, each a sequence of characters
\* (the fixed header text is kept as one token).  msg is <<>> in the form
\* without a message and <<text>> in the form with one.
NotEqText(left, right, i, msg) ==
    LET index == Decimal(i)
        pad   == Repeat(Len(index))
    IN  << <<"equality assertion failed at position 0 and ">> \o index,
           pad \o <<"0", ":", " ", BQ>> \o DebugRepr(left) \o <<BQ, ",">>,
           <<" ">> \o index \o <<":", " ", BQ>> \o DebugRepr(right) \o <<BQ>>
              \o (IF msg = <<>> THEN <<>> ELSE <<":", " ">> \o msg[1]) >>

\* The panic message of the two-value primitive assert_eq!, which names no
\* position.
AssertEqText(left, right, msg) ==
    << <<"assertion ", BQ, "left == right", BQ, " failed">>
          \o (IF msg = <<>> THEN <<>> ELSE <<":", " ">> \o msg[1]),
       <<"  left: ">> \o DebugRepr(left),
       <<" right: ">> \o DebugRepr(right) >>

----------------------------------------------------------------------------
(* The macro rules *)

\* The token shapes of an invocation after its expression list: a trailing
\* ',', a ';', and message tokens after the ';'.
Shapes ==
    {s \in [comma : BOOLEAN, semi : BOOLEAN, msg : BOOLEAN] : s.msg => s.semi}

\* Every token shape, accepted or not: message tokens may also follow the
\* list after a ',' only, or with no separator at all.
AllShapes == [comma : BOOLEAN, semi : BOOLEAN, msg : BOOLEAN]

\* Message tokens that follow a ',' without a ';' are, to the matcher,
\* further expressions of the list.
AsExprs(s) == s.msg /\ ~s.semi /\ s.comma

Plain == [comma |-> FALSE, semi |-> FALSE, msg |-> FALSE]
WithMessage == [comma |-> FALSE, semi |-> TRUE, msg |-> TRUE]

MkRule(line, two, comma, semi, msg, to, args) ==
    [line |-> line, two |-> two, comma |-> comma, semi |-> semi, msg |-> msg,
     to |-> to, args |-> args]

\* MacroRules without rule 39: the trailing ',' of a list of three or more
\* expressions is not accepted.
MacroRules_NoTrailingComma ==
    << MkRule(30, TRUE,  FALSE, FALSE, FALSE, "assert_eq",     FALSE),
       MkRule(31, TRUE,  FALSE, TRUE,  FALSE, "assert_eq",     FALSE),
       MkRule(32, TRUE,  TRUE,  FALSE, FALSE, "assert_eq",     FALSE),
       MkRule(33, TRUE,  TRUE,  TRUE,  FALSE, "assert_eq",     FALSE),
       MkRule(34, TRUE,  FALSE, TRUE,  TRUE,  "assert_eq",     TRUE),
       MkRule(35, TRUE,  TRUE,  TRUE,  TRUE,  "assert_eq",     TRUE),
       MkRule(37, FALSE, FALSE, TRUE,  FALSE, "assert_all_eq", FALSE),
       MkRule(38, FALSE, TRUE,  TRUE,  FALSE, "assert_all_eq", FALSE),
       MkRule(40, FALSE, TRUE,  TRUE,  TRUE,  "assert_all_eq", TRUE),
       MkRule(41, FALSE, FALSE, FALSE, FALSE, "body",          FALSE),
       MkRule(72, FALSE, FALSE, TRUE,  TRUE,  "body",          TRUE) >>

\* MacroRules with rule 35 not passing $($arg)+ on to assert_eq!.
MacroRules_DropMessage ==
    << MkRule(30, TRUE,  FALSE, FALSE, FALSE, "assert_eq",     FALSE),
       MkRule(31, TRUE,  FALSE, TRUE,  FALSE, "assert_eq",     FALSE),
       MkRule(32, TRUE,  TRUE,  FALSE, FALSE, "assert_eq",     FALSE),
       MkRule(33, TRUE,  TRUE,  TRUE,  FALSE, "assert_eq",     FALSE),
       MkRule(34, TRUE,  FALSE, TRUE,  TRUE,  "assert_eq",     TRUE),
       MkRule(35, TRUE,  TRUE,  TRUE,  TRUE,  "assert_eq",     FALSE),
       MkRule(37, FALSE, FALSE, TRUE,  FALSE, "assert_all_eq", FALSE),
       MkRule(38, FALSE, TRUE,  TRUE,  FALSE, "assert_all_eq", FALSE),
       MkRule(39, FALSE, TRUE,  FALSE, FALSE, "assert_all_eq", FALSE),
       MkRule(40, FALSE, TRUE,  TRUE,  TRUE,  "assert_all_eq", TRUE),
       MkRule(41, FALSE, FALSE, FALSE, FALSE, "body",          FALSE),
       MkRule(72, FALSE, FALSE, TRUE,  TRUE,  "body",          TRUE) >>

\* The rules of assert_all_eq! in source order.  `two`: the pattern is
\* `$first , $second` (exactly two expressions) rather than
\* `$first , $( $x ),+`; `to`: what the rule expands to; `args`: the
\* expansion carries the message tokens $($arg)+.
MacroRules ==
    << MkRule(30, TRUE,  FALSE, FALSE, FALSE, "assert_eq",     FALSE),
       MkRule(31, TRUE,  FALSE, TRUE,  FALSE, "assert_eq",     FALSE),
       MkRule(32, TRUE,  TRUE,  FALSE, FALSE, "assert_eq",     FALSE),
       MkRule(33, TRUE,  TRUE,  TRUE,  FALSE, "assert_eq",     FALSE),
       MkRule(34, TRUE,  FALSE, TRUE,  TRUE,  "assert_eq",     TRUE),
       MkRule(35, TRUE,  TRUE,  TRUE,  TRUE,  "assert_eq",     TRUE),
       MkRule(37, FALSE, FALSE, TRUE,  FALSE, "assert_all_eq", FALSE),
       MkRule(38, FALSE, TRUE,  TRUE,  FALSE, "assert_all_eq", FALSE),
       MkRule(39, FALSE, TRUE,  FALSE, FALSE, "assert_all_eq", FALSE),
       MkRule(40, FALSE, TRUE,  TRUE,  TRUE,  "assert_all_eq", TRUE),
       MkRule(41, FALSE, FALSE, FALSE, FALSE, "body",          FALSE),
       MkRule(72, FALSE, FALSE, TRUE,  TRUE,  "body",          TRUE) >>

\* Matches with `$first $( , $x )*` for the general pattern: a single
\* expression is accepted.
Matches_AtLeastOne(r, len, s) ==
    /\ IF r.two THEN len = 2 ELSE len >= 1
    /\ r.comma = s.comma
    /\ r.semi = s.semi
    /\ r.msg = s.msg

\* Does rule r's pattern match len expressions followed by shape s?
Matches(r, len, s) ==
    /\ IF r.two THEN len = 2 ELSE len >= 2
    /\ r.comma = s.comma
    /\ r.semi = s.semi
    /\ r.msg = s.msg

\* The rules an invocation of kind kd is matched against: the whole macro,
\* or (kind "nary") the general rules alone, without the two-value rules
\* that shadow them for n = 2.
RulesOf(kd) ==
    IF kd = "nary" THEN SelectSeq(MacroRules, LAMBDA r : ~r.two) ELSE MacroRules

\* The indices of the rules that match, and the first of them.
Matching(kd, len, s) ==
    {j \in 1..Len(RulesOf(kd)) : Matches(RulesOf(kd)[j], len, s)}

FirstMatch(kd, len, s) ==
    RulesOf(kd)[CHOOSE j \in Matching(kd, len, s) :
                   \A m \in Matching(kd, len, s) : j <= m]

\* The token shape of a rule's recursive re-invocation
\* `assert_all_eq!($first $( ,$x )+ [; $($arg)+])`.
Reinvoked(r) == [comma |-> FALSE, semi |-> r.args, msg |-> r.args]

----------------------------------------------------------------------------
VARIABLES
    kind,       \* "assert_all_eq", "debug_assert_all_eq", "assert_eq" (the
                \* primitive called directly) or "nary" (the general rules
                \* applied directly)
    debug_assertions,  \* cfg!(debug_assertions) of the build
    form,       \* the token shape the invocation was written in
    shape,      \* the token shape still to be matched
    ty,         \* the type of the expressions
    vals,       \* vals[i+1] is the value the (i+1)-th written expression produces
    items,      \* the values of the items named left_val the call site has in scope
    pc,         \* the position in the expansion / the expanded code
    expansion,  \* the source lines of the rules applied so far
    withMsg,    \* the expanded code is the form with a message
    a,          \* the binding `a` of match &$first (<<>>: not bound yet)
    right_val,  \* the binding `right_val` of match &$x
    k,          \* the index of the unrolled $( ... )* block being run
    b,          \* the counter `b`
    cnt,        \* cnt[i]: how many equality checks e_i has taken part in
    trace,      \* the evaluations, equality checks, formattings and panics so far
    fcalls,     \* how many times the message was produced
    message,    \* <<>> or <<the text the message producer returned>>
    reported,   \* <<[left, right, i]>>: the arguments the reporter was called with
    payload,    \* the panic message (<<>>: no panic)
    prev        \* <<>> or <<the record of the previous invocation on the same operands>>

vars == <<kind, debug_assertions, form, shape, ty, vals, items, pc, expansion, withMsg, a, right_val,
          k, b, cnt, trace, fcalls, message, reported, payload, prev>>

\* The expressions as the matcher parses them (e0 first), and their number.
Exprs == IF AsExprs(form) THEN Append(vals, TemplateValue) ELSE vals
n == Len(Exprs)
E(i) == Exprs[i + 1]

\* The expanded code compares every expression with the anchor: it builds only
\* if the expressions have one type.
WellTyped == AsExprs(form) => ty = "&str"

Kinds == {"assert_all_eq", "debug_assert_all_eq", "assert_eq", "nary"}

\* The invocations considered: the macros on any number of expressions in
\* every token shape; the primitive and the general rules on two expressions,
\* without or with a message.
Invocable(kd, s, len) ==
    \/ kd \in {"assert_all_eq", "debug_assert_all_eq"} /\ s \in AllShapes
    \/ kd \in {"assert_eq", "nary"} /\ len = 2 /\ s \in {Plain, WithMessage}

\* The state of an invocation before its expansion.
Fresh(len) ==
    /\ pc = "expand"
    /\ expansion = <<>>
    /\ withMsg = FALSE
    /\ a = <<>>
    /\ right_val = <<>>
    /\ k = 0
    /\ b = 0
    /\ cnt = [i \in 0..(len - 1) |-> 0]
    /\ trace = <<>>
    /\ fcalls = 0
    /\ message = <<>>
    /\ reported = <<>>
    /\ payload = <<>>

Init ==
    /\ ty \in Types
    /\ vals \in UNION {[1..len -> ValuesOf(ty)] : len \in 0..MaxN}
    /\ kind \in Kinds
    /\ debug_assertions \in BOOLEAN
    /\ form \in AllShapes
    /\ Invocable(kind, form, n)
    /\ n <= MaxN
    /\ shape = (IF AsExprs(form) THEN Plain ELSE form)
    /\ items \in {{}} \cup {{v} : v \in ValuesOf(ty)}
    /\ prev = <<>>
    /\ Fresh(n)

Terminal == {"done", "aborted", "no_rule", "unresolved", "type_error"}

----------------------------------------------------------------------------
(* Expansion: the rules are tried in order on the tokens of the invocation *)

NoRule == Matching(kind, n, shape) = {}
Selected == FirstMatch(kind, n, shape)

runtime == <<a, right_val, k, b, cnt, trace, fcalls, message, reported, payload>>
call == <<kind, debug_assertions, form, ty, vals, items, prev>>

\* debug_assert_all_eq! wraps the expansion in `if cfg!(debug_assertions)`:
\* the expanded code is built either way, and runs from `start` unless the
\* flag is off.
Enter_Always(start) == start

Enter(start) ==
    IF kind = "debug_assert_all_eq" /\ ~debug_assertions THEN "done" ELSE start

\* The expanded code is type-checked, and then entered.
Built(start) == IF WellTyped THEN Enter(start) ELSE "type_error"

\* The tokens are those of an assert_all_eq! invocation (for
\* debug_assert_all_eq!: once its own rule has been applied).
Inner == kind # "assert_eq" /\ (kind = "debug_assert_all_eq" => expansion # <<>>)

\* debug_assert_all_eq!($($arg)*) => if cfg!(debug_assertions) { assert_all_eq!($($arg)*); }
DebugExpand ==
    /\ pc = "expand"
    /\ kind = "debug_assert_all_eq"
    /\ expansion = <<>>
    /\ expansion' = <<132>>
    /\ UNCHANGED <<pc, shape, withMsg, runtime, call>>

\* No rule matches: the invocation does not compile.
GrammarReject ==
    /\ pc = "expand"
    /\ Inner
    /\ NoRule
    /\ pc' = "no_rule"
    /\ UNCHANGED <<shape, expansion, withMsg, runtime, call>>

\* Rules 30-35: exactly two expressions, use assert_eq!.
Delegate ==
    /\ pc = "expand"
    /\ Inner
    /\ ~NoRule
    /\ Selected.to = "assert_eq"
    /\ expansion' = Append(expansion, Selected.line)
    /\ withMsg' = Selected.args
    /\ pc' = Built("ae_eval")
    /\ UNCHANGED <<shape, runtime, call>>

\* Rules 37-40: re-invoke the macro without the trailing separators.
Renormalize ==
    /\ pc = "expand"
    /\ Inner
    /\ ~NoRule
    /\ Selected.to = "assert_all_eq"
    /\ expansion' = Append(expansion, Selected.line)
    /\ shape' = Reinvoked(Selected)
    /\ UNCHANGED <<pc, withMsg, runtime, call>>

\* Rules 41 and 72: the unrolled comparison code.  Its calls of not_eq name
\* `left_val`, which the expansion does not bind: the name resolves to an
\* item of the call site if there is one, and the build fails otherwise.
ExpandBody ==
    /\ pc = "expand"
    /\ Inner
    /\ ~NoRule
    /\ Selected.to = "body"
    /\ expansion' = Append(expansion, Selected.line)
    /\ withMsg' = Selected.args
    /\ pc' = IF items = {} THEN "unresolved" ELSE Built("first")
    /\ UNCHANGED <<shape, runtime, call>>

\* assert_eq!(e0, e1) or assert_eq!(e0, e1, message) written directly.
CallAssertEq ==
    /\ pc = "expand"
    /\ kind = "assert_eq"
    /\ withMsg' = shape.msg
    /\ pc' = "ae_eval"
    /\ UNCHANGED <<shape, expansion, runtime, call>>

----------------------------------------------------------------------------
(* The expanded comparison code of rules 41 and 72 *)

static == <<shape, expansion, withMsg, call>>

\* EvalFirst with the counter starting at 1.
EvalFirst_BFromOne ==
    /\ pc = "first"
    /\ a' = <<E(0)>>
    /\ trace' = Append(trace, <<"eval", 0>>)
    /\ b' = 1
    /\ k' = 1
    /\ pc' = "incr"
    /\ UNCHANGED <<right_val, cnt, fcalls, message, reported, payload, static>>

\* EvalFirst with `let f = format!(..)`: the message is formatted when f is
\* bound.
EvalFirst_EagerMessage ==
    /\ pc = "first"
    /\ a' = <<E(0)>>
    /\ trace' = trace \o << <<"eval", 0>> >>
                      \o (IF withMsg THEN << <<"fmt">> >> ELSE <<>>)
    /\ fcalls' = IF withMsg THEN fcalls + 1 ELSE fcalls
    /\ message' = IF withMsg THEN <<CustomMessage>> ELSE message
    /\ b' = 0
    /\ k' = 1
    /\ pc' = "incr"
    /\ UNCHANGED <<right_val, cnt, reported, payload, static>>

\* EvalFirst with `match (&$first, $( &$x ),+)`: every expression is
\* evaluated before the first comparison.
EvalFirst_EvalAll ==
    /\ pc = "first"
    /\ a' = <<E(0)>>
    /\ trace' = trace \o [j \in 1..n |-> <<"eval", j - 1>>]
    /\ b' = 0
    /\ k' = 1
    /\ pc' = "incr"
    /\ UNCHANGED <<right_val, cnt, fcalls, message, reported, payload, static>>

\* match &$first { a => { [let f = || format!(..);] let mut b = 0usize;
EvalFirst ==
    /\ pc = "first"
    /\ a' = <<E(0)>>
    /\ trace' = Append(trace, <<"eval", 0>>)
    /\ b' = 0
    /\ k' = 1
    /\ pc' = "incr"
    /\ UNCHANGED <<right_val, cnt, fcalls, message, reported, payload, static>>

\* IncB leaving the counter alone in the message form.
IncB_OnlyWithoutMessage ==
    /\ pc = "incr"
    /\ b' = (IF withMsg THEN b ELSE b + 1)
    /\ pc' = "evalx"
    /\ UNCHANGED <<a, right_val, k, cnt, trace, fcalls, message, reported,
                   payload, static>>

\* IncB stepping the counter by two.
IncB_ByTwo ==
    /\ pc = "incr"
    /\ b' = b + 2
    /\ pc' = "evalx"
    /\ UNCHANGED <<a, right_val, k, cnt, trace, fcalls, message, reported,
                   payload, static>>

\* b += 1usize;
IncB ==
    /\ pc = "incr"
    /\ b' = b + 1
    /\ pc' = "evalx"
    /\ UNCHANGED <<a, right_val, k, cnt, trace, fcalls, message, reported,
                   payload, static>>

\* match &$x { right_val => {
EvalX ==
    /\ pc = "evalx"
    /\ right_val' = <<E(k)>>
    /\ trace' = Append(trace, <<"eval", k>>)
    /\ pc' = "cmp"
    /\ UNCHANGED <<a, k, b, cnt, fcalls, message, reported, payload, static>>

\* Compare with a failure branch that returns: the later blocks still run,
\* and the last mismatch is the one reported.
Compare_KeepGoing ==
    /\ pc = "cmp"
    /\ trace' = Append(trace, <<"eq", 0, k>>)
    /\ cnt' = [cnt EXCEPT ![0] = @ + 1, ![k] = @ + 1]
    /\ IF a[1] = right_val[1] \/ k < n - 1
       THEN /\ pc' = IF k = n - 1 THEN "done" ELSE "incr"
            /\ k' = IF k = n - 1 THEN k ELSE k + 1
       ELSE /\ pc' = IF withMsg THEN "callf" ELSE "not_eq"
            /\ k' = k
    /\ UNCHANGED <<a, right_val, b, fcalls, message, reported, payload, static>>

\* Compare with `if !(*a == *right_val && *right_val == *a)`: the pair is
\* checked in both directions.
Compare_Symmetric ==
    /\ pc = "cmp"
    /\ trace' = trace \o << <<"eq", 0, k>> >>
                      \o (IF a[1] = right_val[1] THEN << <<"eq", k, 0>> >> ELSE <<>>)
    /\ cnt' = IF a[1] = right_val[1]
              THEN [cnt EXCEPT ![0] = @ + 2, ![k] = @ + 2]
              ELSE [cnt EXCEPT ![0] = @ + 1, ![k] = @ + 1]
    /\ IF a[1] = right_val[1]
       THEN /\ pc' = IF k = n - 1 THEN "done" ELSE "incr"
            /\ k' = IF k = n - 1 THEN k ELSE k + 1
       ELSE /\ pc' = IF withMsg THEN "callf" ELSE "not_eq"
            /\ k' = k
    /\ UNCHANGED <<a, right_val, b, fcalls, message, reported, payload, static>>

\* if !(*a == *right_val) { .. }, then the next unrolled block or the end.
Compare ==
    /\ pc = "cmp"
    /\ trace' = Append(trace, <<"eq", 0, k>>)
    /\ cnt' = [cnt EXCEPT ![0] = @ + 1, ![k] = @ + 1]
    /\ IF a[1] = right_val[1]
       THEN /\ pc' = IF k = n - 1 THEN "done" ELSE "incr"
            /\ k' = IF k = n - 1 THEN k ELSE k + 1
       ELSE /\ pc' = IF withMsg THEN "callf" ELSE "not_eq"
            /\ k' = k
    /\ UNCHANGED <<a, right_val, b, fcalls, message, reported, payload, static>>

\* &f() in the call of not_eq: the closure formats the message.
CallF ==
    /\ pc = "callf"
    /\ fcalls' = fcalls + 1
    /\ message' = <<CustomMessage>>
    /\ trace' = Append(trace, <<"fmt">>)
    /\ pc' = "not_eq"
    /\ UNCHANGED <<a, right_val, k, b, cnt, reported, payload, static>>

\* not_eq(left_val, right_val, b[, &f()]): renders the message and panics.
NotEq ==
    /\ pc = "not_eq"
    /\ \E lv \in items :
          /\ reported' = <<[left |-> lv, right |-> right_val[1], i |-> b]>>
          /\ payload' = NotEqText(lv, right_val[1], b, message)
    /\ trace' = Append(trace, <<"panic">>)
    /\ pc' = "aborted"
    /\ UNCHANGED <<a, right_val, k, b, cnt, fcalls, message, static>>

----------------------------------------------------------------------------
(* The two-value primitive assert_eq! *)

\* match (&$left, &$right) { (left_val, right_val) => {
AssertEqEval ==
    /\ pc = "ae_eval"
    /\ a' = <<E(0)>>
    /\ right_val' = <<E(1)>>
    /\ trace' = trace \o << <<"eval", 0>>, <<"eval", 1>> >>
    /\ pc' = "ae_cmp"
    /\ UNCHANGED <<k, b, cnt, fcalls, message, reported, payload, static>>

\* if !(*left_val == *right_val) { .. }
AssertEqCompare ==
    /\ pc = "ae_cmp"
    /\ trace' = Append(trace, <<"eq", 0, 1>>)
    /\ cnt' = [cnt EXCEPT ![0] = @ + 1, ![1] = @ + 1]
    /\ pc' = IF a[1] = right_val[1] THEN "done" ELSE "ae_panic"
    /\ UNCHANGED <<a, right_val, k, b, fcalls, message, reported, payload, static>>

\* The failure branch: the message, if any, is formatted and the panic raised.
AssertEqPanic ==
    /\ pc = "ae_panic"
    /\ fcalls' = IF withMsg THEN fcalls + 1 ELSE fcalls
    /\ message' = IF withMsg THEN <<CustomMessage>> ELSE <<>>
    /\ reported' = <<[left |-> a[1], right |-> right_val[1]]>>
    /\ payload' = AssertEqText(a[1], right_val[1], message')
    /\ trace' = trace \o (IF withMsg THEN << <<"fmt">> >> ELSE <<>>) \o << <<"panic">> >>
    /\ pc' = "aborted"
    /\ UNCHANGED <<a, right_val, k, b, cnt, static>>

----------------------------------------------------------------------------
(* A second invocation on the same operands, in another accepted form *)

Snapshot ==
    [kind |-> kind, form |-> form, outcome |-> pc, expansion |-> expansion,
     trace |-> trace, cnt |-> cnt, fcalls |-> fcalls, reported |-> reported,
     payload |-> payload]

Again ==
    /\ pc \in Terminal
    /\ kind = "assert_all_eq"
    /\ form \in Shapes
    /\ n >= 2
    /\ prev = <<>>
    /\ prev' = <<Snapshot>>
    /\ \E kd \in Kinds, s \in Shapes :
          /\ Invocable(kd, s, n)
          /\ <<kd, s>> # <<kind, form>>
          /\ kd = "debug_assert_all_eq" => s = form
          /\ kind' = kd
          /\ form' = s
          /\ shape' = s
    /\ pc' = "expand"
    /\ expansion' = <<>>
    /\ withMsg' = FALSE
    /\ a' = <<>>
    /\ right_val' = <<>>
    /\ k' = 0
    /\ b' = 0
    /\ cnt' = [i \in 0..(n - 1) |-> 0]
    /\ trace' = <<>>
    /\ fcalls' = 0
    /\ message' = <<>>
    /\ reported' = <<>>
    /\ payload' = <<>>
    /\ UNCHANGED <<ty, vals, items, debug_assertions>>

Next ==
    \/ DebugExpand
    \/ GrammarReject
    \/ Delegate
    \/ Renormalize
    \/ ExpandBody
    \/ CallAssertEq
    \/ EvalFirst
    \/ IncB
    \/ EvalX
    \/ Compare
    \/ CallF
    \/ NotEq
    \/ AssertEqEval
    \/ AssertEqCompare
    \/ AssertEqPanic
    \/ Again

Spec == Init /\ [][Next]_vars

----------------------------------------------------------------------------
(* The reporter on its own: the failure branch at every position *)

\* The state of the unrolled code on x, .., x, y (y at position i, as in
\* tests::long_false) right after the check of position i has failed.
AtMismatch(t, x, y, i, lv, msg) ==
    /\ kind = "assert_all_eq"
    /\ debug_assertions = TRUE
    /\ form = (IF msg THEN WithMessage ELSE Plain)
    /\ shape = form
    /\ ty = t
    /\ vals = [j \in 1..(i + 1) |-> IF j <= i THEN x ELSE y]
    /\ items = {lv}
    /\ pc = (IF msg THEN "callf" ELSE "not_eq")
    /\ expansion = (IF msg THEN <<72>> ELSE <<41>>)
    /\ withMsg = msg
    /\ a = <<x>>
    /\ right_val = <<y>>
    /\ k = i
    /\ b = i
    /\ cnt = [j \in 0..i |-> IF j = 0 THEN i ELSE 1]
    /\ trace = [p \in 1..(2 * i + 1) |->
                   IF p = 1 THEN <<"eval", 0>>
                   ELSE IF p % 2 = 0 THEN <<"eval", p \div 2>>
                   ELSE <<"eq", 0, (p - 1) \div 2>>]
    /\ fcalls = 0
    /\ message = <<>>
    /\ reported = <<>>
    /\ payload = <<>>
    /\ prev = <<>>

ReporterInit ==
    \E t \in Types, i \in 1..MaxIndex, msg \in BOOLEAN :
        \E x \in ValuesOf(t), y \in ValuesOf(t), lv \in ValuesOf(t) :
            x # y /\ AtMismatch(t, x, y, i, lv, msg)

ReporterNext ==
    \/ CallF
    \/ NotEq

ReporterSpec == ReporterInit /\ [][ReporterNext]_vars

----------------------------------------------------------------------------
(* Vocabulary of the properties *)

\* The tail indices whose value differs from the anchor's, and the first.
Mismatching == {i \in 1..(n - 1) : E(i).ty # E(0).ty \/ E(i).v # E(0).v}
AllEqual == Mismatching = {}
FirstMismatch == CHOOSE i \in Mismatching : \A j \in Mismatching : i <= j

\* The evaluations and the equality checks of a trace, in order.
Evals(t) == SelectSeq(t, LAMBDA e : e[1] = "eval")
Eqs(t) == SelectSeq(t, LAMBDA e : e[1] = "eq")
Fmts(t) == SelectSeq(t, LAMBDA e : e[1] = "fmt")

\* The invocation was given a custom message (message tokens after a ';').
HasMessage == form.msg /\ form.semi

\* The invocation is the macro on a list the grammar accepts.
MacroCall == kind = "assert_all_eq" /\ n >= 2

\* The code that ran is the unrolled comparison code of rule 41 or 72.
NaryPath == expansion # <<>> /\ expansion[Len(expansion)] \in {41, 72}

\* The mismatch has been detected (the failure branch has been entered).
Detected == pc \in {"callf", "not_eq", "ae_panic", "aborted"}

\* The header line of the N-ary diagnostic for position i.
Header(i) == <<"equality assertion failed at position 0 and ">> \o Decimal(i)

RECURSIVE SumTo(_, _)
SumTo(f, i) == IF i < 0 THEN 0 ELSE f[i] + SumTo(f, i - 1)

\* What an invocation did, as far as a caller can observe it.
Observed ==
    [outcome |-> pc, trace |-> trace, cnt |-> cnt, fcalls |-> fcalls,
     reported |-> reported, payload |-> payload]
ObservedOf(r) ==
    [outcome |-> r.outcome, trace |-> r.trace, cnt |-> r.cnt, fcalls |-> r.fcalls,
     reported |-> r.reported, payload |-> r.payload]

\* Both invocations on these operands have ended, one of kind k1 and the
\* other of kind k2, both without or both with a message.
Compared(k1, k2) ==
    /\ prev # <<>>
    /\ pc \in Terminal
    /\ {kind, prev[1].kind} = {k1, k2}
    /\ form.msg = prev[1].form.msg

----------------------------------------------------------------------------
(* C1 *)

\* C1 (as claimed): every invocation of assert_all_eq! on n >= 2 values, in
\* any accepted form, returns normally if and only if every tail value
\* equals the anchor, and panics otherwise.
C1_ReturnsIffAllEqual ==
    (MacroCall /\ pc \in Terminal) =>
        /\ (pc = "done") <=> AllEqual
        /\ ~AllEqual => pc = "aborted"

----------------------------------------------------------------------------
(* C2 *)

\* C2 (as claimed): for n >= 2, when the first mismatch is at tail index i,
\* the header of the panic message states "position 0 and i" for exactly
\* that smallest i.
C2_HeaderStatesFirstMismatch ==
    (MacroCall /\ pc = "aborted") => payload[1] = Header(FirstMismatch)

\* C2 (amended): whenever an invocation on n >= 3 values panics, the header
\* of the panic message states "position 0 and i" for the smallest
\* mismatching index i; for n = 2 the message is that of assert_eq!, which
\* states no position.
C2_HeaderStatesFirstMismatchNary ==
    (MacroCall /\ pc = "aborted") =>
        IF n >= 3
        THEN ~AllEqual /\ payload[1] = Header(FirstMismatch)
        ELSE payload[1] = AssertEqText(E(0), E(1), message)[1]

\* An invocation on four or more values panicked on a mismatch that is
\* neither the first nor the last tail element and is followed by another.
C2_Witness ==
    /\ MacroCall
    /\ pc = "aborted"
    /\ n >= 4
    /\ FirstMismatch = 2
    /\ 3 \in Mismatching
    /\ payload[1] = Header(2)

----------------------------------------------------------------------------
(* C3 *)

\* C3: fail-fast.  Once the first mismatch, at tail index i, is detected,
\* exactly i equality checks have been performed, e0 .. e_i and no later
\* expression have been evaluated, and this stays so to the end of the
\* invocation (no evaluation or comparison follows the detection).
C3_FailFast ==
    Detected =>
        /\ ~AllEqual
        /\ Eqs(trace) = [j \in 1..FirstMismatch |-> <<"eq", 0, j>>]
        /\ Evals(trace) = [j \in 1..(FirstMismatch + 1) |-> <<"eval", j - 1>>]

\* The unrolled code panicked on a mismatch that later expressions follow.
C3_Witness ==
    /\ MacroCall
    /\ NaryPath
    /\ pc = "aborted"
    /\ FirstMismatch + 2 <= n - 1
    /\ Len(Eqs(trace)) = FirstMismatch

----------------------------------------------------------------------------
(* C4 *)

\* C4: minimal comparisons.  A successful invocation on n values has
\* performed exactly the n-1 checks e0 == e_1, .., e0 == e_(n-1), once
\* each; the anchor took part in n-1 checks, every tail value in one, and
\* the counters add up to 2*(n-1).
C4_MinimalComparisons ==
    (MacroCall /\ pc = "done") =>
        /\ Eqs(trace) = [j \in 1..(n - 1) |-> <<"eq", 0, j>>]
        /\ cnt[0] = n - 1
        /\ \A i \in 1..(n - 1) : cnt[i] = 1
        /\ SumTo(cnt, n - 1) = 2 * (n - 1)

\* The unrolled code succeeded on six values: ten counter increments.
C4_Witness ==
    /\ MacroCall
    /\ NaryPath
    /\ pc = "done"
    /\ n = 6
    /\ SumTo(cnt, n - 1) = 10

----------------------------------------------------------------------------
(* C5 *)

\* C5: lazy message.  The message is produced only directly after the
\* equality check that found the first mismatch, never on an invocation
\* that succeeds, and exactly once on one that was given a message and
\* panics.
C5_LazyMessage ==
    MacroCall =>
        /\ \A p \in 1..Len(trace) :
              trace[p] = <<"fmt">> =>
                  /\ ~AllEqual
                  /\ p > 1
                  /\ trace[p - 1] = <<"eq", 0, FirstMismatch>>
        /\ fcalls = Len(Fmts(trace))
        /\ pc = "done" => fcalls = 0
        /\ (pc = "aborted" /\ HasMessage) => fcalls = 1

\* The unrolled code with a message panicked, the message produced once.
C5_Witness ==
    /\ MacroCall
    /\ NaryPath
    /\ HasMessage
    /\ pc = "aborted"
    /\ fcalls = 1
    /\ message = <<CustomMessage>>

----------------------------------------------------------------------------
(* C6 *)

\* C6: ordering.  The expressions are evaluated left to right from e0,
\* each at most once; the checks are e0 == e_1, e0 == e_2, .. in this
\* order; the check of e_i comes after the evaluation of e_i and before
\* that of e_(i+1); a successful invocation has evaluated every expression
\* exactly once.
C6_Ordering ==
    MacroCall =>
        /\ Evals(trace) = [j \in 1..Len(Evals(trace)) |-> <<"eval", j - 1>>]
        /\ Eqs(trace) = [j \in 1..Len(Eqs(trace)) |-> <<"eq", 0, j>>]
        /\ \A p, q \in 1..Len(trace) :
              (trace[p][1] = "eval" /\ trace[q][1] = "eq") =>
                  (p < q <=> trace[p][2] <= trace[q][3])
        /\ pc = "done" => Len(Evals(trace)) = n

\* The unrolled code succeeded on four or more values.
C6_Witness ==
    /\ MacroCall
    /\ NaryPath
    /\ pc = "done"
    /\ n >= 4
    /\ Len(Evals(trace)) = n

----------------------------------------------------------------------------
(* C7 *)

\* C7: trailing-separator equivalence.  Two invocations of the macro on the
\* same n >= 2 operands that differ only in their trailing separators (both
\* without a message: none, ',', ';' or ',;'; or both with a message: ';' or
\* ',;' before it) evaluate and compare the same things in the same order
\* and end the same way with the same panic message.
C7_TrailingSeparators ==
    (MacroCall /\ Compared("assert_all_eq", "assert_all_eq")) =>
        Observed = ObservedOf(prev[1])

\* Three values written plainly panicked, and so did the same values written
\* with a trailing ',;'.
C7_Witness ==
    /\ MacroCall
    /\ Compared("assert_all_eq", "assert_all_eq")
    /\ n >= 3
    /\ prev[1].form = Plain
    /\ form = [comma |-> TRUE, semi |-> TRUE, msg |-> FALSE]
    /\ pc = "aborted"
    /\ prev[1].outcome = "aborted"

----------------------------------------------------------------------------
(* C8 *)

\* C8: two-value delegation.  On two operands the macro, in each of its six
\* forms, and a direct assert_eq! on the same operands with the same message
\* evaluate and compare the same things, end the same way and panic with
\* the same message.
C8_TwoValueDelegation ==
    (n = 2 /\ Compared("assert_all_eq", "assert_eq")) =>
        Observed = ObservedOf(prev[1])

\* The macro on two values with ',;' before the message panicked, and so did
\* assert_eq! with the message on the same two values.
C8_Witness ==
    /\ n = 2
    /\ Compared("assert_all_eq", "assert_eq")
    /\ kind = "assert_eq"
    /\ prev[1].form = [comma |-> TRUE, semi |-> TRUE, msg |-> TRUE]
    /\ prev[1].expansion = <<35>>
    /\ pc = "aborted"
    /\ prev[1].outcome = "aborted"
    /\ fcalls = 1

----------------------------------------------------------------------------
(* C9 *)

\* C9 (as claimed): on the same two values the two-value rules and the
\* general rules (anchor plus a tail of one) end the same way and, on
\* failure, report the same two values.
C9_FastPathMatchesNary ==
    (n = 2 /\ Compared("assert_all_eq", "nary")) =>
        /\ pc = prev[1].outcome
        /\ \A r1 \in {reported[j] : j \in 1..Len(reported)},
              r2 \in {prev[1].reported[j] : j \in 1..Len(prev[1].reported)} :
              r1.left = r2.left /\ r1.right = r2.right

----------------------------------------------------------------------------
(* C10 *)

\* C10 (as claimed): on a mismatch at tail index i the reporter is handed,
\* and renders, exactly the anchor e0 under label 0 and the mismatched
\* element e_i under label i; no other value and no undefined binding.
C10_ReportsAnchorAndMismatch ==
    MacroCall =>
        /\ pc # "unresolved"
        /\ (NaryPath /\ pc = "aborted") =>
              /\ reported = <<[left |-> E(0), right |-> E(FirstMismatch),
                               i |-> FirstMismatch]>>
              /\ payload = NotEqText(E(0), E(FirstMismatch), FirstMismatch, message)

----------------------------------------------------------------------------
(* C11 *)

\* C11: debug_assert_all_eq! with the debug-assertions flag off evaluates no
\* expression, performs no comparison, does not produce the message and
\* cannot panic; with the flag on it does exactly what assert_all_eq! does
\* on the same arguments (same evaluations and checks, same outcome, same
\* panic message).
C11_DebugVariant ==
    /\ (kind = "debug_assert_all_eq" /\ ~debug_assertions) =>
          /\ trace = <<>>
          /\ \A i \in DOMAIN cnt : cnt[i] = 0
          /\ fcalls = 0
          /\ payload = <<>>
          /\ pc \notin {"aborted", "first", "incr", "evalx", "cmp", "callf",
                        "not_eq", "ae_eval", "ae_cmp", "ae_panic"}
    /\ (debug_assertions /\ Compared("assert_all_eq", "debug_assert_all_eq")) =>
          Observed = ObservedOf(prev[1])

\* With the flag off the debug variant ended normally on three or more
\* values that assert_all_eq! had panicked on.
C11_Witness ==
    /\ kind = "debug_assert_all_eq"
    /\ ~debug_assertions
    /\ n >= 3
    /\ ~AllEqual
    /\ prev # <<>>
    /\ prev[1].outcome = "aborted"
    /\ pc = "done"
    /\ expansion = <<132, 72>>

----------------------------------------------------------------------------
(* C12 *)

\* The invocation is the macro, written with fewer than two expressions or
\* with message tokens that no ';' separates from the expression list.
Malformed ==
    /\ kind = "assert_all_eq"
    /\ (Len(vals) <= 1 \/ (form.msg /\ ~form.semi))

\* No rule has been applied and nothing has run.
NeverStarted ==
    /\ pc \in {"expand", "no_rule"}
    /\ expansion = <<>>
    /\ trace = <<>>
    /\ payload = <<>>

\* The invocation has not got past the build: nothing has run.
RejectedOrUnbuilt ==
    /\ pc \in {"expand", "no_rule", "unresolved", "type_error"}
    /\ trace = <<>>
    /\ payload = <<>>

\* C12 (as claimed): an invocation with zero or one expression, or with a
\* message not separated from the expression list by ';', is rejected
\* statically: it never reaches the comparison code and never ends in
\* success or panic.
C12_MalformedIsRejected == Malformed => RejectedOrUnbuilt

\* C12 (amended): an invocation whose tokens, read as a comma-separated
\* expression list, hold zero or one expression, or whose message tokens
\* follow the last expression with no separator at all, matches no rule,
\* never reaches the comparison code and never ends in success or panic.
\* Message tokens that follow a ',' are further expressions of the list.
C12_UnparsableIsRejected ==
    (/\ kind = "assert_all_eq"
     /\ (n <= 1 \/ (form.msg /\ ~form.semi /\ ~form.comma))) => NeverStarted

\* Two or more expressions followed directly by message tokens were rejected.
C12_Witness ==
    /\ kind = "assert_all_eq"
    /\ Len(vals) >= 2
    /\ form = [comma |-> FALSE, semi |-> FALSE, msg |-> TRUE]
    /\ pc = "no_rule"

----------------------------------------------------------------------------
(* C13 *)

\* The number of characters of the decimal rendering of i.
RECURSIVE NumDigits(_)
NumDigits(i) == IF i < 10 THEN 1 ELSE 1 + NumDigits(i \div 10)

Spaces(w) == [j \in 1..w |-> " "]

\* The first two lines of the diagnostic for position i and a value lv
\* rendered under label 0.
C13_Line1(i) == <<"equality assertion failed at position 0 and ">> \o Decimal(i)
C13_Line2(lv, i) ==
    Spaces(NumDigits(i)) \o <<"0", ":", " ", BQ>> \o DebugRepr(lv) \o <<BQ, ",">>

\* The mismatch line from the digits of i on, with ': <custom message>' if
\* and only if the invocation was given a message.
C13_Line3(rv, i) ==
    Decimal(i) \o <<":", " ", BQ>> \o DebugRepr(rv) \o <<BQ>>
       \o (IF HasMessage THEN <<":", " ">> \o CustomMessage ELSE <<>>)

----------------------------------------------------------------------------
(* C14 *)

\* The position of the first ':' of a line, and the number of spaces the
\* line begins with.
FirstColon(line) ==
    CHOOSE p \in 1..Len(line) :
        line[p] = ":" /\ \A q \in 1..(p - 1) : line[q] # ":"
LeadingSpaces(line) ==
    CHOOSE w \in 0..Len(line) :
        /\ \A q \in 1..w : line[q] = " "
        /\ w < Len(line) => line[w + 1] # " "

\* C14: alignment.  For every failing index i >= 1 the anchor's line begins
\* with exactly as many spaces as the decimal rendering of i has characters,
\* followed by the label '0:', and that label ends in the same column as
\* the label '<i>:' of the mismatch line.
C14_Alignment ==
    (NaryPath /\ pc = "aborted") =>
        LET i  == FirstMismatch
            l2 == payload[2]
            l3 == payload[3]
        IN  /\ i >= 1
            /\ LeadingSpaces(l2) = NumDigits(i)
            /\ l2[LeadingSpaces(l2) + 1] = "0"
            /\ FirstColon(l2) = LeadingSpaces(l2) + 2
            /\ FirstColon(l3) = FirstColon(l2)
            /\ SubSeq(l3, FirstColon(l3) - NumDigits(i), FirstColon(l3) - 1)
                  = Decimal(i)

\* The reporter has rendered a mismatch at position 100: three spaces of
\* padding.
C14_Witness ==
    /\ NaryPath
    /\ pc = "aborted"
    /\ FirstMismatch = 100
    /\ LeadingSpaces(payload[2]) = 3

----------------------------------------------------------------------------
(* C15 *)

\* The number of times the invocation has aborted.
Panics(t) == Len(SelectSeq(t, LAMBDA e : e[1] = "panic"))

\* An abort happens at most once and nothing runs after it: the reporter
\* never hands control back to the comparison code.
AbortIsFinal ==
    /\ Panics(trace) <= 1
    /\ Panics(trace) = 1 <=> pc = "aborted"
    /\ Panics(trace) = 1 => trace[Len(trace)] = <<"panic">>

\* C15 (as claimed): every invocation of assert_all_eq! in an accepted form
\* ends in exactly one of two terminal states, success (fall-through after
\* the last comparison) or abort; it aborts at most once and the reporter
\* never returns control to the comparison code.
C15_EndsInSuccessOrAbort ==
    (MacroCall /\ form \in Shapes) =>
        /\ pc \in Terminal => pc \in {"done", "aborted"}
        /\ AbortIsFinal

----------------------------------------------------------------------------
(* C16 *)

\* The unrolled comparison code has evaluated the anchor.
InLoop ==
    /\ NaryPath
    /\ pc \in {"incr", "evalx", "cmp", "callf", "not_eq", "done", "aborted"}
    /\ trace # <<>>

\* The number of tail expressions evaluated so far.
TailEvaluated == Len(Evals(trace)) - 1

\* C16: position counter of the N-ary path.  b starts at 0 and is
\* incremented by exactly 1 immediately before each tail expression is
\* evaluated, so whenever the comparison e0 == e_k is performed b = k; b
\* never exceeds N-1; and the index passed to the reporter is the value of
\* b at the failing comparison.
C16_PositionCounter ==
    InLoop =>
        /\ b \in 0..(n - 1)
        /\ pc = "incr" => b = TailEvaluated /\ b = k - 1
        /\ pc = "evalx" => b = TailEvaluated + 1 /\ b = k
        /\ pc = "cmp" => b = k /\ trace[Len(trace)] = <<"eval", b>>
        /\ pc \in {"callf", "not_eq", "done", "aborted"} => b = TailEvaluated
        /\ \A j \in 1..Len(Eqs(trace)) : Eqs(trace)[j] = <<"eq", 0, j>>
        /\ Detected => Eqs(trace)[Len(Eqs(trace))] = <<"eq", 0, b>>
        /\ reported # <<>> => reported[1].i = b

\* The reporter has been handed the counter after several increments.
C16_Witness ==
    /\ InLoop
    /\ pc = "aborted"
    /\ reported # <<>>
    /\ reported[1].i = b
    /\ b >= 3
    /\ b < n - 1

----------------------------------------------------------------------------
(* C17 *)

\* assert_all_eq! has ended twice on the same three or more expressions,
\* once with a custom message and once without.
MessagePair ==
    /\ prev # <<>>
    /\ pc \in Terminal
    /\ kind = "assert_all_eq"
    /\ prev[1].kind = "assert_all_eq"
    /\ form \in Shapes
    /\ prev[1].form \in Shapes
    /\ n >= 3
    /\ HasMessage # (prev[1].form.msg /\ prev[1].form.semi)

\* What the invocation with the message did, and what the one without did.
Messaged == IF HasMessage THEN Snapshot ELSE prev[1]
Unmessaged == IF HasMessage THEN prev[1] ELSE Snapshot

\* The events of a trace other than the formatting of the message.
NotFmt(t) == SelectSeq(t, LAMBDA e : e[1] # "fmt")

\* C17: supplying a message never changes whether or where the assertion
\* fails.  For N >= 3 the with-message form and the no-message form on the
\* same expressions perform the same evaluations and equality checks in
\* the same order, have the same outcome and the same reported position
\* and values, and their diagnostics differ only by the appended
\* ': <message>'.
C17_MessageIsInert ==
    MessagePair =>
        /\ NotFmt(Messaged.trace) = Unmessaged.trace
        /\ Messaged.cnt = Unmessaged.cnt
        /\ Messaged.outcome = Unmessaged.outcome
        /\ Messaged.reported = Unmessaged.reported
        /\ Len(Messaged.payload) = Len(Unmessaged.payload)
        /\ Messaged.outcome = "aborted" =>
              /\ Len(Messaged.payload) = 3
              /\ Messaged.payload[1] = Unmessaged.payload[1]
              /\ Messaged.payload[2] = Unmessaged.payload[2]
              /\ Messaged.payload[3] =
                    Unmessaged.payload[3] \o <<":", " ">> \o CustomMessage
        /\ Messaged.outcome # "aborted" => Messaged.payload = <<>>

\* Both forms have aborted on the same expressions at a position after the
\* first.
C17_Witness ==
    /\ MessagePair
    /\ Messaged.outcome = "aborted"
    /\ Unmessaged.outcome = "aborted"
    /\ Messaged.reported # <<>>
    /\ Messaged.reported[1].i >= 2
    /\ Messaged.fcalls = 1
    /\ Unmessaged.fcalls = 0

====
